---- MODULE Spec2Model ----
(***************************************************************************)
(* plover_controller: the stroke recognition core of ControllerMachine     *)
(* (machine.py) as a state machine.  One action per SDL event handler;     *)
(* each action runs the whole handler, helpers included.                   *)
(*                                                                         *)
(* Axis values are fixed point: an event value is k * 4096, so the         *)
(* normalised value float(event.value) / 32768 is k / Scale.  Parameters   *)
(* (dead zone, thresholds) are in hundredths, angles in millidegrees.      *)
(***************************************************************************)
EXTENDS Integers, Sequences, FiniteSets, TLC

VARIABLES
    params,                   \* self._params (the numeric options)
    mapping,                  \* the five tables parse_mappings returned
    controller_instance_id,   \* self._controller_instance_id
    finished,                 \* self.finished (threading.Event)
    stick_states,             \* _stick_states: axis name -> value (absent = 0)
    trigger_states,           \* _trigger_states: axis name -> value (absent = 0)
    pressed_buttons,          \* _pressed_buttons
    unsequenced_buttons,      \* _unsequenced_buttons
    pending_keys,             \* _pending_keys
    pending_stick_movements,  \* _pending_stick_movements: stick -> path (absent = <<>>)
    notified,                 \* the _notify calls of the last handler run, in order
    outcome,                  \* where maybe_complete_stroke returned in that run
    collected,                \* buttons pressed since everything was last released
    controls,                 \* the axes and buttons this session's events come from
    btk,                      \* one run of buttons_to_keys, rule by rule
    seg,                      \* one call of stick_segment: arguments and result
    gk,                       \* one run of get_keys_for_stroke, character by character
    raised,                   \* the exception that left handle_sdl_event, if any
    peer,                     \* a second ControllerMachine: its own attributes
    pm,                       \* one call of a mapping parser: the text, the lines read, the result
    cmp                       \* one call of a helper of util.py and one of its copy in machine.py

vars == <<params, mapping, controller_instance_id, finished, stick_states,
          trigger_states, pressed_buttons, unsequenced_buttons, pending_keys,
          pending_stick_movements, notified, outcome, collected, controls,
          btk, seg, gk, raised, peer, pm, cmp>>

-----------------------------------------------------------------------------
(* Bounds of the model. *)

\* longest pending stick path an axis event may build
MaxPath == 4
\* longest rule list handed to the rule-by-rule run of buttons_to_keys
MaxRules == 2

-----------------------------------------------------------------------------
(* Fixed point. *)

\* value = float(event.value) / 32768 with event.value = k * 4096
Scale == 8

abs(v) == IF v < 0 THEN -v ELSE v

Range(s) == {s[i] : i \in DOMAIN s}

\* 360 degrees (tau) in millidegrees
tau == 360000

\* atan2 on first-quadrant samples (x >= 0, y >= 0), in millidegrees
atan2_q1(y, x) ==
    IF y = 0 THEN 0
    ELSE IF x = 0 THEN 90000
    ELSE IF x = y THEN 45000
    ELSE IF 7 * y = 4 * x THEN 29745
    ELSE IF 4 * y = 7 * x THEN 60255
    ELSE IF y < x THEN 22500 ELSE 67500

\* math.atan2(y, x), result in (-180000, 180000]
atan2(y, x) ==
    IF y < 0
    THEN (IF x < 0 THEN atan2_q1(-y, -x) - 180000 ELSE -atan2_q1(-y, x))
    ELSE (IF x < 0 THEN 180000 - atan2_q1(y, -x) ELSE atan2_q1(y, x))

\* while angle < 0: angle += tau
RECURSIVE raise_angle(_)
raise_angle(angle) == IF angle < 0 THEN raise_angle(angle + tau) ELSE angle

\* while angle > tau: angle -= tau
RECURSIVE lower_angle(_)
lower_angle(angle) == IF angle > tau THEN lower_angle(angle - tau) ELSE angle

\* the test with <= : a sample on the boundary is inside the dead zone
in_dead_zone_inclusive(stick_dead_zone, lr, ud) ==
    /\ stick_dead_zone > 0
    /\ (lr * lr + ud * ud) * 10000
         <= 2 * stick_dead_zone * stick_dead_zone * Scale * Scale

\* a dead zone no sample falls into
in_dead_zone_never(stick_dead_zone, lr, ud) == FALSE

\* hypot(lr, ud) < stick_dead_zone * sqrt(2), both sides squared
in_dead_zone(stick_dead_zone, lr, ud) ==
    /\ stick_dead_zone > 0
    /\ (lr * lr + ud * ud) * 10000
         < 2 * stick_dead_zone * stick_dead_zone * Scale * Scale

\* util.stick_segment; no_segment stands for None
no_segment == -1

\* stick_segment with the segments centred on their angles
stick_segment_centred(stick_dead_zone, offset, segment_count, lr, ud) ==
    IF in_dead_zone(stick_dead_zone, lr, ud) THEN no_segment
    ELSE
        LET angle == lower_angle(raise_angle(
                         atan2(ud, lr) - (offset * tau) \div 360))
            segment == (angle * segment_count + tau \div 2) \div tau
        IN  segment % segment_count

\* offset is in degrees: offset = offset / 360 * tau
stick_segment(stick_dead_zone, offset, segment_count, lr, ud) ==
    IF in_dead_zone(stick_dead_zone, lr, ud) THEN no_segment
    ELSE
        LET angle == lower_angle(raise_angle(
                         atan2(ud, lr) - (offset * tau) \div 360))
            segment == (angle * segment_count) \div tau
        IN  segment % segment_count

\* the comparison without abs(): a stick pushed left or up reads as at rest
over_threshold_signed(p, v) == 100 * v > Scale * p.stroke_end_threshold

\* abs(v) > self._params["stroke_end_threshold"]
over_threshold(p, v) == 100 * abs(v) > Scale * p.stroke_end_threshold

-----------------------------------------------------------------------------
(* The mapping tables. *)

Sticks == <<"left", "right">>
TriggerAxes == <<"lefttrigger", "righttrigger">>
StickAxes == {"leftx", "lefty", "rightx", "righty"}

\* k.startswith(stick) on the keys of _stick_states
startswith(k, stick) == k \in {stick \o "x", stick \o "y"}

SixSegments == <<"dr", "d", "dl", "ul", "u", "ur">>

\* DEFAULT_MAPPING, the rules the modelled inputs can reach
DefaultMapping ==
    [stick_segment_counts |-> [s \in {"left", "right"} |-> 6],
     stick_offsets        |-> [s \in {"left", "right"} |-> 0],
     stick_directions     |-> [s \in {"left", "right"} |-> SixSegments],
     unordered_mappings   |->
        << [chord |-> <<"a">>,           result |-> <<"-Z">>],
           [chord |-> <<"b">>,           result |-> <<"-S">>],
           [chord |-> <<"lefttrigger">>, result |-> <<"A-">>],
           [chord |-> <<"leftdr">>,      result |-> <<"R-">>],
           [chord |-> <<"leftd">>,       result |-> <<"W-">>],
           [chord |-> <<"leftdl">>,      result |-> <<"K-">>],
           [chord |-> <<"leftul">>,      result |-> <<"T-">>],
           [chord |-> <<"rightdr">>,     result |-> <<"-G">>] >>,
     ordered_mappings     |->
        [path \in {<<"leftd", "leftdl", "leftul", "leftdl">>}
            |-> <<"T-", "W-">>]]

\* a mapping whose unordered rules overlap: (a,b -> -T) listed before (a -> -D)
OverlapMapping ==
    [stick_segment_counts |-> [s \in {"left", "right"} |-> 6],
     stick_offsets        |-> [s \in {"left", "right"} |-> 0],
     stick_directions     |-> [s \in {"left", "right"} |-> SixSegments],
     unordered_mappings   |->
        << [chord |-> <<"a", "b">>, result |-> <<"-T">>],
           [chord |-> <<"a">>,      result |-> <<"-D">>] >>,
     ordered_mappings     |->
        [path \in {<<"leftd", "leftdl", "leftul", "leftdl">>}
            |-> <<"T-", "W-">>]]

\* The sessions checked: a mapping and the controls the player touches.  A
\* run stays within one session, so the state space is the sum over the
\* sessions and not the product of all the controls.
Sessions ==
    { [mapping  |-> DefaultMapping,
       controls |-> {"a", "b", "lefttrigger", "leftx", "lefty"}],
      [mapping  |-> DefaultMapping,
       controls |-> {"leftx", "lefty", "rightx"}],
      [mapping  |-> OverlapMapping,
       controls |-> {"a", "b", "lefttrigger", "leftx"}],
      [mapping  |-> DefaultMapping,
       controls |-> {"a", "guide"}] }

\* get_option_info: stick_dead_zone 0.6, trigger_dead_zone 0.9,
\* stroke_end_threshold 0.4
DefaultParams ==
    [stick_dead_zone |-> 60, trigger_dead_zone |-> 90,
     stroke_end_threshold |-> 40]

-----------------------------------------------------------------------------
(* buttons_to_keys *)

\* no exception has been raised
NoError == "none"

\* the loop body without in_keys.remove(key): rules do not consume
btk_rule_keeps(acc, rule) ==
    IF \A i \in DOMAIN rule.chord : rule.chord[i] \in acc.in_keys
    THEN [acc EXCEPT !.keys = @ \cup Range(rule.result)]
    ELSE acc

\* for key in chord: in_keys.remove(key); set.remove raises KeyError when the
\* key is not (or no longer) in the set
RECURSIVE btk_remove(_, _, _)
btk_remove(in_keys, chord, i) ==
    IF i > Len(chord) THEN [in_keys |-> in_keys, raised |-> NoError]
    ELSE IF chord[i] \notin in_keys
    THEN [in_keys |-> in_keys, raised |-> "KeyError"]
    ELSE btk_remove(in_keys \ {chord[i]}, chord, i + 1)

\* one iteration of the loop over unordered_mappings
btk_rule(acc, rule) ==
    IF acc.raised # NoError THEN acc
    ELSE IF \A i \in DOMAIN rule.chord : rule.chord[i] \in acc.in_keys
    THEN LET removed == btk_remove(acc.in_keys, rule.chord, 1)
         IN  IF removed.raised # NoError
             THEN [acc EXCEPT !.in_keys = removed.in_keys,
                              !.raised = removed.raised]
             ELSE [acc EXCEPT !.in_keys = removed.in_keys,
                              !.keys = @ \cup Range(rule.result)]
    ELSE acc

RECURSIVE btk_loop(_, _, _)
btk_loop(acc, unordered_mappings, i) ==
    IF i > Len(unordered_mappings) THEN acc
    ELSE btk_loop(btk_rule(acc, unordered_mappings[i]), unordered_mappings, i + 1)

\* returns the keys, what is left of in_keys (the caller's set, mutated) and
\* the exception raised, if any
buttons_to_keys(in_keys, unordered_mappings) ==
    btk_loop([in_keys |-> in_keys, keys |-> {}, raised |-> NoError],
             unordered_mappings, 1)

\* self.keymap.keys_to_actions with the machine's default keymap, which maps
\* every key of KEYS_LAYOUT to the steno key of the same name
keys_to_actions(keys) == {k \in keys : k # "no-op"}

-----------------------------------------------------------------------------
(* The engine state as one record, and the handlers on it. *)

Self ==
    [stick_states            |-> stick_states,
     trigger_states          |-> trigger_states,
     pressed_buttons         |-> pressed_buttons,
     unsequenced_buttons     |-> unsequenced_buttons,
     pending_keys            |-> pending_keys,
     pending_stick_movements |-> pending_stick_movements,
     finished                |-> finished,
     notified                |-> <<>>,
     outcome                 |-> "not called",
     raised                  |-> raised]

\* check_stick without the comparison with inorder_list[-1]
check_stick_always_appends(p, m, e, stick, lr, ud) ==
    IF in_dead_zone(p.stick_dead_zone, lr, ud) THEN e
    ELSE
        LET segment_count == m.stick_segment_counts[stick]
            offset == (m.stick_offsets[stick] * tau) \div 360
            angle == lower_angle(raise_angle(atan2(ud, lr) - offset))
            segment == (angle * segment_count) \div tau
            direction == m.stick_directions[stick][(segment % segment_count) + 1]
            segment_name == stick \o direction
        IN  [e EXCEPT !.pending_stick_movements[stick] = Append(@, segment_name)]

\* check_stick turning the stick by the offset the other way round
check_stick_adds_offset(p, m, e, stick, lr, ud) ==
    IF in_dead_zone(p.stick_dead_zone, lr, ud) THEN e
    ELSE
        LET segment_count == m.stick_segment_counts[stick]
            offset == (m.stick_offsets[stick] * tau) \div 360
            angle == lower_angle(raise_angle(atan2(ud, lr) + offset))
            segment == (angle * segment_count) \div tau
            direction == m.stick_directions[stick][(segment % segment_count) + 1]
            inorder_list == e.pending_stick_movements[stick]
        IN  IF Len(inorder_list) = 0
               \/ stick \o direction # inorder_list[Len(inorder_list)]
            THEN [e EXCEPT !.pending_stick_movements[stick] =
                               Append(inorder_list, stick \o direction)]
            ELSE e

check_stick(p, m, e, stick, lr, ud) ==
    IF e.raised # NoError THEN e
    ELSE IF in_dead_zone(p.stick_dead_zone, lr, ud) THEN e
    ELSE IF stick \notin DOMAIN m.stick_segment_counts
    THEN [e EXCEPT !.raised = "KeyError"]
    ELSE IF m.stick_segment_counts[stick] = 0
    THEN [e EXCEPT !.raised = "ZeroDivisionError"]
    ELSE
        LET segment_count == m.stick_segment_counts[stick]
            offset == (m.stick_offsets[stick] * tau) \div 360
            angle == lower_angle(raise_angle(atan2(ud, lr) - offset))
            segment == (angle * segment_count) \div tau
            directions == m.stick_directions[stick]
            index == (segment % segment_count) + 1
            segment_name == stick \o directions[index]
            inorder_list == e.pending_stick_movements[stick]
        IN  IF index > Len(directions)
            THEN [e EXCEPT !.raised = "IndexError"]
            ELSE IF Len(inorder_list) = 0
                    \/ segment_name # inorder_list[Len(inorder_list)]
            THEN [e EXCEPT !.pending_stick_movements[stick] =
                               Append(inorder_list, segment_name)]
            ELSE e

\* check_axes with the trigger compared with trigger_dead_zone
check_axes_dead_zone(p, m, e) ==
    LET xy(s, stick) == check_stick(p, m, s, stick,
                                    s.stick_states[stick \o "x"],
                                    s.stick_states[stick \o "y"])
        e2 == xy(xy(e, Sticks[1]), Sticks[2])
    IN  [e2 EXCEPT !.unsequenced_buttons =
            @ \cup {a \in Range(TriggerAxes) :
                        100 * e2.trigger_states[a] > Scale * p.trigger_dead_zone}]

check_axes(p, m, e) ==
    LET xy(s, stick) == check_stick(p, m, s, stick,
                                    s.stick_states[stick \o "x"],
                                    s.stick_states[stick \o "y"])
        e2 == xy(xy(e, Sticks[1]), Sticks[2])
    IN  IF e2.raised # NoError THEN e2
        ELSE [e2 EXCEPT !.unsequenced_buttons =
                @ \cup {a \in Range(TriggerAxes) : e2.trigger_states[a] > 0}]

\* the loop body adding the path's symbols on a match as well
ordered_chord_stick_spills(p, m, e, stick) ==
    IF \E k \in DOMAIN e.stick_states :
           startswith(k, stick) /\ over_threshold(p, e.stick_states[k])
    THEN e
    ELSE
        LET movements == e.pending_stick_movements[stick]
        IN  IF movements \in DOMAIN m.ordered_mappings
            THEN [e EXCEPT !.pending_stick_movements[stick] = <<>>,
                           !.unsequenced_buttons = @ \cup Range(movements),
                           !.pending_keys =
                               @ \cup Range(m.ordered_mappings[movements])]
            ELSE [e EXCEPT !.unsequenced_buttons = @ \cup Range(movements),
                           !.pending_stick_movements[stick] = <<>>]

\* the loop body dropping an unmatched path
ordered_chord_stick_drops(p, m, e, stick) ==
    IF \E k \in DOMAIN e.stick_states :
           startswith(k, stick) /\ over_threshold(p, e.stick_states[k])
    THEN e
    ELSE
        LET movements == e.pending_stick_movements[stick]
        IN  IF movements \in DOMAIN m.ordered_mappings
            THEN [e EXCEPT !.pending_stick_movements[stick] = <<>>,
                           !.pending_keys =
                               @ \cup Range(m.ordered_mappings[movements])]
            ELSE [e EXCEPT !.pending_stick_movements[stick] = <<>>]

\* the loop body skipping a stick while any stick at all is beyond threshold
ordered_chord_stick_waits(p, m, e, stick) ==
    IF \E k \in DOMAIN e.stick_states : over_threshold(p, e.stick_states[k])
    THEN e
    ELSE
        LET movements == e.pending_stick_movements[stick]
        IN  IF movements \in DOMAIN m.ordered_mappings
            THEN [e EXCEPT !.pending_stick_movements[stick] = <<>>,
                           !.pending_keys =
                               @ \cup Range(m.ordered_mappings[movements])]
            ELSE [e EXCEPT !.unsequenced_buttons = @ \cup Range(movements),
                           !.pending_stick_movements[stick] = <<>>]

\* the body of the loop of maybe_complete_ordered_chord, for one stick
ordered_chord_stick(p, m, e, stick) ==
    IF e.raised # NoError THEN e
    ELSE IF \E k \in DOMAIN e.stick_states :
           startswith(k, stick) /\ over_threshold(p, e.stick_states[k])
    THEN e
    ELSE
        LET movements == e.pending_stick_movements[stick]
        IN  IF movements \in DOMAIN m.ordered_mappings
            THEN [e EXCEPT !.pending_stick_movements[stick] = <<>>,
                           !.pending_keys =
                               @ \cup Range(m.ordered_mappings[movements])]
            ELSE [e EXCEPT !.unsequenced_buttons = @ \cup Range(movements),
                           !.pending_stick_movements[stick] = <<>>]

\* maybe_complete_ordered_chord looking at the left stick only
maybe_complete_ordered_chord_left(p, m, e) ==
    ordered_chord_stick(p, m, e, Sticks[1])

maybe_complete_ordered_chord(p, m, e) ==
    ordered_chord_stick(p, m, ordered_chord_stick(p, m, e, Sticks[1]), Sticks[2])

\* the clear() calls without _unsequenced_buttons.clear()
clear_accumulators_keeps_unsequenced(e) ==
    [e EXCEPT !.pending_stick_movements = [s \in DOMAIN @ |-> <<>>],
              !.pending_keys = {}]

\* the clear() calls without _pending_keys.clear()
clear_accumulators_keeps_pending(e) ==
    [e EXCEPT !.unsequenced_buttons = {},
              !.pending_stick_movements = [s \in DOMAIN @ |-> <<>>]]

\* the three clear() calls of maybe_complete_stroke
clear_accumulators(e) ==
    [e EXCEPT !.unsequenced_buttons = {},
              !.pending_stick_movements = [s \in DOMAIN @ |-> <<>>],
              !.pending_keys = {}]

\* self._notify(actions) even when actions is empty
notify_unless_empty_always(e, actions) == [e EXCEPT !.notified = Append(@, actions)]

\* if not actions: return / self._notify(actions)
notify_unless_empty(e, actions) ==
    IF actions = {} THEN e ELSE [e EXCEPT !.notified = Append(@, actions)]

maybe_complete_stroke(p, m, e) ==
    IF e.raised # NoError THEN e
    ELSE IF e.unsequenced_buttons = {} /\ e.pending_keys = {}
    THEN [e EXCEPT !.outcome = "nothing to flush"]
    ELSE IF \E k \in DOMAIN e.stick_states : over_threshold(p, e.stick_states[k])
    THEN [e EXCEPT !.outcome = "stick out"]
    ELSE IF \E k \in DOMAIN e.trigger_states : e.trigger_states[k] > 0
    THEN [e EXCEPT !.outcome = "trigger held"]
    ELSE IF e.pressed_buttons # {}
    THEN [e EXCEPT !.outcome = "button held"]
    ELSE
        LET resolved == buttons_to_keys(e.unsequenced_buttons,
                                        m.unordered_mappings)
            keys == resolved.keys \cup e.pending_keys
            actions == keys_to_actions(keys)
            cleared == clear_accumulators(
                           [e EXCEPT !.unsequenced_buttons = resolved.in_keys])
        IN  IF resolved.raised # NoError
            THEN [e EXCEPT !.unsequenced_buttons = resolved.in_keys,
                           !.raised = resolved.raised]
            ELSE notify_unless_empty([cleared EXCEPT !.outcome = "completed"],
                                     actions)

\* handle_axis_motion up to the call of maybe_complete_ordered_chord
axis_checked(p, m, e, axis, value) ==
    check_axes(p, m,
        IF axis \in Range(TriggerAxes)
        THEN [e EXCEPT !.trigger_states[axis] = value]
        ELSE [e EXCEPT !.stick_states[axis] = value])

\* handle_axis_motion without the closing call of maybe_complete_stroke
handle_axis_motion_unflushed(p, m, id, e, which, axis, value) ==
    IF which # id THEN e
    ELSE maybe_complete_ordered_chord(p, m, axis_checked(p, m, e, axis, value))

\* handle_axis_motion without the comparison of event.which
handle_axis_motion_any_device(p, m, id, e, which, axis, value) ==
    maybe_complete_stroke(p, m,
        maybe_complete_ordered_chord(p, m, axis_checked(p, m, e, axis, value)))

handle_axis_motion(p, m, id, e, which, axis, value) ==
    IF which # id THEN e
    ELSE maybe_complete_stroke(p, m,
            maybe_complete_ordered_chord(p, m, axis_checked(p, m, e, axis, value)))

\* handle_button on a release, up to the call of maybe_complete_stroke
button_released(e, button) == [e EXCEPT !.pressed_buttons = @ \ {button}]

\* handle_button checking for completion before the button is discarded
handle_button_stale(p, m, id, e, which, button, state) ==
    IF which # id THEN e
    ELSE IF state
    THEN [e EXCEPT !.pressed_buttons = @ \cup {button},
                   !.unsequenced_buttons = @ \cup {button}]
    ELSE button_released(maybe_complete_stroke(p, m, e), button)

handle_button(p, m, id, e, which, button, state) ==
    IF which # id THEN e
    ELSE IF state
    THEN [e EXCEPT !.pressed_buttons = @ \cup {button},
                   !.unsequenced_buttons = @ \cup {button}]
    ELSE maybe_complete_stroke(p, m, button_released(e, button))

handle_device_removed(p, m, id, e, which) ==
    IF which # id THEN e ELSE [e EXCEPT !.finished = TRUE]

-----------------------------------------------------------------------------
(* The events the model delivers. *)

\* device ids: the active controller and one other
Devices == {0, 1}

Buttons == {"a", "b", "guide"}

\* the values each axis reports, in units of 1 / Scale
AxisValues(axis) ==
    CASE axis = "leftx"       -> {-7, 0}
      [] axis = "lefty"       -> {0, 4, 7}
      [] axis = "rightx"      -> {0, 7}
      [] axis = "lefttrigger" -> {0, 5}
      [] OTHER                -> {}

Axes == StickAxes \cup Range(TriggerAxes)

\* every stick at rest, every trigger released
all_at_rest(p, e) ==
    /\ \A k \in DOMAIN e.stick_states : ~over_threshold(p, e.stick_states[k])
    /\ \A k \in DOMAIN e.trigger_states : e.trigger_states[k] <= 0

\* the buttons pressed since the input was last all released
collect(p, e, was, pressed) ==
    IF e.pressed_buttons = {} /\ all_at_rest(p, e) THEN {}
    ELSE was \cup pressed

Idle == [um |-> <<>>, in0 |-> {}, in_keys |-> {}, keys |-> {}, i |-> 1]

\* stick_segment is not being called
NoCall ==
    [stick_dead_zone |-> 0, offset |-> 0, segment_count |-> 1, lr |-> 0,
     ud |-> 0, result |-> no_segment, done |-> FALSE]

\* get_keys_for_stroke is not running
NoRun == [stroke_str |-> <<>>, i |-> 1, passed_hyphen |-> FALSE, keys |-> <<>>]

\* self._controller_instance_id = None
None == -1

\* no second ControllerMachine has been constructed
NoPeer == [controller_instance_id |-> None, finished |-> TRUE]

\* no helper has been called
NotCalled == [called |-> FALSE]
NoCompare == [helper |-> "none", machine |-> NotCalled, util |-> NotCalled]

\* no mapping parser has been called
NoParse ==
    [parser |-> "none", text |-> <<>>, i |-> 0, result |-> <<>>,
     printed |-> <<>>, raised |-> NoError]

\* the class attributes and the observers once a handler has returned
CommitEngine(e, pressed) ==
    /\ raised = NoError
    /\ \A s \in DOMAIN e.pending_stick_movements :
           Len(e.pending_stick_movements[s]) <= MaxPath
    /\ stick_states' = e.stick_states
    /\ trigger_states' = e.trigger_states
    /\ pressed_buttons' = e.pressed_buttons
    /\ unsequenced_buttons' = e.unsequenced_buttons
    /\ pending_keys' = e.pending_keys
    /\ pending_stick_movements' = e.pending_stick_movements
    /\ notified' = e.notified
    /\ outcome' = e.outcome
    /\ raised' = e.raised
    /\ collected' = collect(params, e, collected, pressed)
    /\ UNCHANGED <<params, mapping, controls, btk, seg, gk, pm, cmp>>

Commit(e, pressed) ==
    /\ CommitEngine(e, pressed)
    /\ finished' = e.finished
    /\ UNCHANGED <<controller_instance_id, peer>>

\* run: the loop hands events to handle_sdl_event until finished is set
AxisMotion ==
    /\ ~finished
    /\ \E which \in Devices, axis \in Axes \cap controls :
         \E value \in AxisValues(axis) :
            \E e \in {handle_axis_motion(params, mapping, controller_instance_id,
                                          Self, which, axis, value)} :
                Commit(e, {})

Button ==
    /\ ~finished
    /\ \E which \in Devices, button \in Buttons \cap controls, state \in BOOLEAN :
            \E e \in {handle_button(params, mapping, controller_instance_id,
                                     Self, which, button, state)} :
                Commit(e, IF state /\ which = controller_instance_id
                          THEN {button} ELSE {})

DeviceRemoved ==
    /\ ~finished
    /\ \E which \in Devices :
            \E e \in {handle_device_removed(params, mapping,
                                             controller_instance_id, Self, which)} :
                Commit(e, {})

Init ==
    /\ params = DefaultParams
    /\ \E s \in Sessions : mapping = s.mapping /\ controls = s.controls
    /\ controller_instance_id = 0
    /\ finished = FALSE
    /\ stick_states = [k \in StickAxes |-> 0]
    /\ trigger_states = [k \in Range(TriggerAxes) |-> 0]
    /\ pressed_buttons = {}
    /\ unsequenced_buttons = {}
    /\ pending_keys = {}
    /\ pending_stick_movements = [s \in Range(Sticks) |-> <<>>]
    /\ notified = <<>>
    /\ outcome = "not called"
    /\ collected = {}
    /\ btk = Idle
    /\ seg = NoCall
    /\ gk = NoRun
    /\ raised = NoError
    /\ peer = NoPeer
    /\ pm = NoParse
    /\ cmp = NoCompare

Next == AxisMotion \/ Button \/ DeviceRemoved

Spec == Init /\ [][Next]_vars

-----------------------------------------------------------------------------
(* Capture sessions and a second instance.  _stick_states, _trigger_states,  *)
(* _pressed_buttons, _unsequenced_buttons, _pending_keys and                 *)
(* _pending_stick_movements are bound in the class body and from then on     *)
(* only mutated in place: the variables of those names are the objects that  *)
(* every instance, in every session, reads through self.                     *)

\* the controls touched in the runs with two sessions or two instances
LifeControls == {"a", "lefttrigger", "leftx"}

EngineVars ==
    <<stick_states, trigger_states, pressed_buttons, unsequenced_buttons,
      pending_keys, pending_stick_movements>>

\* stop_capture: the controller is closed and forgotten, the thread is told
\* to finish; no handler runs
StopCapture ==
    /\ controller_instance_id # None
    /\ controller_instance_id' = None
    /\ finished' = TRUE
    /\ notified' = <<>>
    /\ outcome' = "not called"
    /\ UNCHANGED <<EngineVars, params, mapping, collected, controls, btk,
                   seg, gk, raised, peer, pm, cmp>>

\* the next session: ControllerMachine(params) binds _params and the five
\* mapping tables, start_capture opens the first controller and starts the
\* thread
StartCapture ==
    /\ finished
    /\ controller_instance_id = None
    /\ \E id \in Devices : controller_instance_id' = id
    /\ finished' = FALSE
    /\ notified' = <<>>
    /\ outcome' = "not called"
    /\ UNCHANGED <<EngineVars, params, mapping, collected, controls, btk,
                   seg, gk, raised, peer, pm, cmp>>

\* self as the second instance sees it
PeerSelf == [Self EXCEPT !.finished = peer.finished]

CommitPeer(e, pressed) ==
    /\ CommitEngine(e, pressed)
    /\ peer' = [peer EXCEPT !.finished = e.finished]
    /\ UNCHANGED <<controller_instance_id, finished>>

\* the run loop of the second instance
PeerAxisMotion ==
    /\ ~peer.finished
    /\ \E which \in Devices, axis \in Axes \cap controls :
         \E value \in AxisValues(axis) :
            \E e \in {handle_axis_motion(params, mapping,
                                          peer.controller_instance_id,
                                          PeerSelf, which, axis, value)} :
                CommitPeer(e, {})

PeerButton ==
    /\ ~peer.finished
    /\ \E which \in Devices, button \in Buttons \cap controls, state \in BOOLEAN :
            \E e \in {handle_button(params, mapping,
                                     peer.controller_instance_id,
                                     PeerSelf, which, button, state)} :
                CommitPeer(e, IF state /\ which = peer.controller_instance_id
                              THEN {button} ELSE {})

PeerDeviceRemoved ==
    /\ ~peer.finished
    /\ \E which \in Devices :
            \E e \in {handle_device_removed(params, mapping,
                                             peer.controller_instance_id,
                                             PeerSelf, which)} :
                CommitPeer(e, {})

InitLife ==
    /\ params = DefaultParams
    /\ mapping = DefaultMapping
    /\ controls = LifeControls
    /\ controller_instance_id = 0
    /\ finished = FALSE
    /\ stick_states = [k \in StickAxes |-> 0]
    /\ trigger_states = [k \in Range(TriggerAxes) |-> 0]
    /\ pressed_buttons = {}
    /\ unsequenced_buttons = {}
    /\ pending_keys = {}
    /\ pending_stick_movements = [s \in Range(Sticks) |-> <<>>]
    /\ notified = <<>>
    /\ outcome = "not called"
    /\ collected = {}
    /\ btk = Idle
    /\ seg = NoCall
    /\ gk = NoRun
    /\ raised = NoError
    /\ \E id \in Devices : peer = [controller_instance_id |-> id, finished |-> FALSE]
    /\ pm = NoParse
    /\ cmp = NoCompare

NextLife ==
    \/ AxisMotion
    \/ Button
    \/ DeviceRemoved
    \/ StopCapture
    \/ StartCapture
    \/ PeerAxisMotion
    \/ PeerButton
    \/ PeerDeviceRemoved

SpecLife == InitLife /\ [][NextLife]_vars

-----------------------------------------------------------------------------
(* The run loop with its timeout: SDL_WaitEventTimeout returns 0 when no     *)
(* event arrived within _params["timeout"].  (The branch taken when          *)
(* SDL_GetError() is set ends the thread and is left out.)                   *)

\* the controls touched in the runs with timeouts
RunControls == {"a", "lefttrigger", "leftx", "lefty"}

\* a loop that flushes on timeout: the accumulators are cleared
wait_event_timeout_clears(e) ==
    [clear_accumulators(e) EXCEPT !.outcome = "timed out"]

\* one iteration of the loop of run in which no event arrived and
\* SDL_GetError() is empty: neither branch is taken
wait_event_timeout(e) == [e EXCEPT !.outcome = "timed out"]

Timeout ==
    /\ ~finished
    /\ \E e \in {wait_event_timeout(Self)} : Commit(e, {})

InitRun ==
    /\ params = DefaultParams
    /\ mapping = DefaultMapping
    /\ controls = RunControls
    /\ controller_instance_id = 0
    /\ finished = FALSE
    /\ stick_states = [k \in StickAxes |-> 0]
    /\ trigger_states = [k \in Range(TriggerAxes) |-> 0]
    /\ pressed_buttons = {}
    /\ unsequenced_buttons = {}
    /\ pending_keys = {}
    /\ pending_stick_movements = [s \in Range(Sticks) |-> <<>>]
    /\ notified = <<>>
    /\ outcome = "not called"
    /\ collected = {}
    /\ btk = Idle
    /\ seg = NoCall
    /\ gk = NoRun
    /\ raised = NoError
    /\ peer = NoPeer
    /\ pm = NoParse
    /\ cmp = NoCompare

NextRun == AxisMotion \/ Button \/ DeviceRemoved \/ Timeout

SpecRun == InitRun /\ [][NextRun]_vars

-----------------------------------------------------------------------------
(* parse_mappings.  A text is a sequence of lines; a line is given by the    *)
(* regular expression it matches and the groups of the match (results are   *)
(* the keys plover's Stroke(...).keys() returns for the steno text).         *)

\* longest mapping text
MaxLines == 2

\* an assignment that keeps the value a key already has
dict_set_first(d, k, v) ==
    [x \in DOMAIN d \cup {k} |-> IF x \in DOMAIN d THEN d[x] ELSE v]

\* d[k] = v on a dict
dict_set(d, k, v) == [x \in DOMAIN d \cup {k} |-> IF x = k THEN v ELSE d[x]]

\* the tables before the first line
NoTables ==
    [stick_segment_counts |-> <<>>,
     stick_offsets        |-> <<>>,
     stick_directions     |-> <<>>,
     unordered_mappings   |-> <<>>,
     ordered_mappings     |-> <<>>]

\* the decimal digits, by value
Digits == <<"0", "1", "2", "3", "4", "5", "6", "7", "8", "9">>

digit(c) == (CHOOSE i \in DOMAIN Digits : Digits[i] = c) - 1

\* the number a sequence of digits denotes
RECURSIVE int_of(_)
int_of(ds) ==
    IF ds = <<>> THEN 0
    ELSE 10 * int_of(SubSeq(ds, 1, Len(ds) - 1)) + digit(ds[Len(ds)])

\* float(...) on the text of the offset group ([0-9-.]+): an optional sign,
\* digits with at most one point and at least one digit, anything else is a
\* ValueError.  The value is in whole degrees (the offsets of the texts have
\* no fractional digit other than 0).
float(text) ==
    LET neg   == text # <<>> /\ text[1] = "-"
        body  == IF neg THEN Tail(text) ELSE text
        dots  == {i \in DOMAIN body : body[i] = "."}
        point == IF dots = {} THEN Len(body) + 1 ELSE CHOOSE i \in dots : TRUE
        whole == SubSeq(body, 1, point - 1)
        frac  == SubSeq(body, point + 1, Len(body))
        ok    == /\ Cardinality(dots) <= 1
                 /\ \A i \in DOMAIN body : body[i] \in Range(Digits) \cup {"."}
                 /\ Len(whole) + Len(frac) > 0
    IN  IF ok
        THEN [raised |-> NoError,
              value  |-> (IF neg THEN -1 ELSE 1) * int_of(whole)]
        ELSE [raised |-> "ValueError", value |-> 0]

\* the exception the body of the loop raises on a line, if any
parse_line_raises(line) ==
    IF line.kind = "stick" THEN float(line.offset).raised ELSE NoError

\* the body of the loop over text.splitlines()
parse_line(t, line) ==
    CASE line.kind = "stick" ->
            [t EXCEPT
                !.stick_segment_counts = dict_set(@, line.name, line.count),
                !.stick_offsets        = dict_set(@, line.name,
                                                  float(line.offset).value),
                !.stick_directions     = dict_set(@, line.name, line.directions)]
      [] line.kind = "unordered" ->
            [t EXCEPT !.unordered_mappings =
                Append(@, [chord |-> line.chord, result |-> line.result])]
      [] line.kind = "ordered" ->
            [t EXCEPT !.ordered_mappings =
                dict_set(@, [i \in DOMAIN line.path |-> line.stick \o line.path[i]],
                         line.result)]
      [] OTHER -> t

RECURSIVE parse_lines(_, _, _)
parse_lines(t, text, i) ==
    IF i > Len(text) THEN t
    ELSE parse_lines(parse_line(t, text[i]), text, i + 1)

parse_mappings(text) == parse_lines(NoTables, text, 1)

\* the exception parse_mappings leaves with, if any
parse_mappings_raises(text) ==
    IF \E i \in DOMAIN text : parse_line_raises(text[i]) # NoError
    THEN "ValueError" ELSE NoError

\* the lines the texts are made of
LinePool ==
    { [kind |-> "stick", name |-> "left", count |-> 6, offset |-> <<"0">>,
       directions |-> SixSegments],
      [kind |-> "stick", name |-> "left", count |-> 0, offset |-> <<"0">>,
       directions |-> <<"u">>],
      [kind |-> "stick", name |-> "left", count |-> 6, offset |-> <<"0">>,
       directions |-> <<"u", "d">>],
      [kind |-> "stick", name |-> "left", count |-> 6, offset |-> <<"-">>,
       directions |-> SixSegments],
      [kind |-> "unordered", chord |-> <<"a">>, result |-> <<"-Z">>],
      [kind |-> "unordered", chord |-> <<"a", "a">>, result |-> <<"-S">>],
      [kind |-> "ordered", stick |-> "left", path |-> <<"ul">>,
       result |-> <<"T-">>],
      [kind |-> "blank"],
      [kind |-> "comment"],
      [kind |-> "unknown"] }

Texts == UNION {[1..n -> LinePool] : n \in 0..MaxLines}

\* the controls touched in the runs on parsed mappings
ParsedControls == {"a", "leftx", "rightx"}

InitParsed ==
    /\ params = DefaultParams
    /\ \E text \in Texts : /\ parse_mappings_raises(text) = NoError
                           /\ mapping = parse_mappings(text)
    /\ controls = ParsedControls
    /\ controller_instance_id = 0
    /\ finished = FALSE
    /\ stick_states = [k \in StickAxes |-> 0]
    /\ trigger_states = [k \in Range(TriggerAxes) |-> 0]
    /\ pressed_buttons = {}
    /\ unsequenced_buttons = {}
    /\ pending_keys = {}
    /\ pending_stick_movements = [s \in Range(Sticks) |-> <<>>]
    /\ notified = <<>>
    /\ outcome = "not called"
    /\ collected = {}
    /\ btk = Idle
    /\ seg = NoCall
    /\ gk = NoRun
    /\ raised = NoError
    /\ peer = NoPeer
    /\ pm = NoParse
    /\ cmp = NoCompare

SpecParsed == InitParsed /\ [][Next]_vars

-----------------------------------------------------------------------------
(* buttons_to_keys on its own: the inputs drawn from bounded sets, the loop   *)
(* run one rule per step.                                                  *)

\* the rules the rule lists are made of
RulePool ==
    { [chord |-> <<"a", "b">>, result |-> <<"-T">>],
      [chord |-> <<"a">>,      result |-> <<"-D">>],
      [chord |-> <<"b">>,      result |-> <<"-S">>],
      [chord |-> <<"b", "c">>, result |-> <<"-Z", "-S">>] }

RuleLists == UNION {[1..n -> RulePool] : n \in 0..MaxRules}

InKeys == SUBSET {"a", "b", "c"}

InitBTK ==
    /\ params = DefaultParams
    /\ mapping = DefaultMapping
    /\ controls = {}
    /\ controller_instance_id = 0
    /\ finished = FALSE
    /\ stick_states = [k \in StickAxes |-> 0]
    /\ trigger_states = [k \in Range(TriggerAxes) |-> 0]
    /\ pressed_buttons = {}
    /\ unsequenced_buttons = {}
    /\ pending_keys = {}
    /\ pending_stick_movements = [s \in Range(Sticks) |-> <<>>]
    /\ notified = <<>>
    /\ outcome = "not called"
    /\ collected = {}
    /\ \E um \in RuleLists, in_keys \in InKeys :
          btk = [um |-> um, in0 |-> in_keys, in_keys |-> in_keys,
                 keys |-> {}, i |-> 1]
    /\ seg = NoCall
    /\ gk = NoRun
    /\ raised = NoError
    /\ peer = NoPeer
    /\ pm = NoParse
    /\ cmp = NoCompare

\* one iteration of "for chord, result in unordered_mappings"
BtkStep ==
    /\ btk.i <= Len(btk.um)
    /\ \E acc \in {btk_rule([in_keys |-> btk.in_keys, keys |-> btk.keys,
                              raised |-> NoError],
                             btk.um[btk.i])} :
          btk' = [btk EXCEPT !.in_keys = acc.in_keys, !.keys = acc.keys,
                             !.i = @ + 1]
    /\ UNCHANGED <<params, mapping, controller_instance_id, finished,
                   stick_states, trigger_states, pressed_buttons,
                   unsequenced_buttons, pending_keys, pending_stick_movements,
                   notified, outcome, collected, controls, seg, gk, raised,
                   peer, pm, cmp>>

NextBTK == BtkStep

SpecBTK == InitBTK /\ [][NextBTK]_vars

-----------------------------------------------------------------------------
(* util.stick_segment on its own: the arguments drawn from bounded sets.     *)

\* largest segment count
MaxSegments == 6

\* lr and ud, in units of 1 / Scale
SampleValues == {-7, -4, 0, 4, 7}

\* stick_dead_zone, in hundredths
DeadZones == {0, 50, 60}

\* offset, in degrees
Offsets == {-90, 0, 45, 90, 360}

InitQuant ==
    /\ params = DefaultParams
    /\ mapping = DefaultMapping
    /\ controls = {}
    /\ controller_instance_id = 0
    /\ finished = FALSE
    /\ stick_states = [k \in StickAxes |-> 0]
    /\ trigger_states = [k \in Range(TriggerAxes) |-> 0]
    /\ pressed_buttons = {}
    /\ unsequenced_buttons = {}
    /\ pending_keys = {}
    /\ pending_stick_movements = [s \in Range(Sticks) |-> <<>>]
    /\ notified = <<>>
    /\ outcome = "not called"
    /\ collected = {}
    /\ btk = Idle
    /\ gk = NoRun
    /\ raised = NoError
    /\ peer = NoPeer
    /\ pm = NoParse
    /\ cmp = NoCompare
    /\ \E dz \in DeadZones, offset \in Offsets, n \in 1..MaxSegments,
          lr \in SampleValues, ud \in SampleValues :
            seg = [stick_dead_zone |-> dz, offset |-> offset,
                   segment_count |-> n, lr |-> lr, ud |-> ud,
                   result |-> no_segment, done |-> FALSE]

\* the call stick_segment(stick_dead_zone, offset, segment_count, lr, ud)
Quantize ==
    /\ ~seg.done
    /\ seg' = [seg EXCEPT
                  !.result = stick_segment(seg.stick_dead_zone, seg.offset,
                                           seg.segment_count, seg.lr, seg.ud),
                  !.done = TRUE]
    /\ UNCHANGED <<params, mapping, controller_instance_id, finished,
                   stick_states, trigger_states, pressed_buttons,
                   unsequenced_buttons, pending_keys, pending_stick_movements,
                   notified, outcome, collected, controls, btk, gk, raised,
                   peer, pm, cmp>>

NextQuant == Quantize

SpecQuant == InitQuant /\ [][NextQuant]_vars

-----------------------------------------------------------------------------
(* util.get_keys_for_stroke on its own, one character per step.  A stroke    *)
(* string is the sequence of its characters.                                 *)

\* longest stroke string, the one of test_util.py apart
MaxStroke == 4

\* no_hyphen_keys = set("!@#$%^&*")
no_hyphen_keys == {"!", "@", "#", "$", "%", "^", "&", "*"}

\* characters of the stroke strings: the grammar admits [A-Z-*#]
StrokeChars == {"P", "F", "-", "*", "#"}

\* the string of test_get_keys_for_stroke
PHRO_FR == <<"P", "H", "R", "O", "-", "F", "R">>

StrokeStrings ==
    UNION {[1..n -> StrokeChars] : n \in 0..MaxStroke} \cup {PHRO_FR}

\* the key with its hyphen whatever the character
gk_key_hyphenates(key, passed_hyphen) ==
    IF passed_hyphen THEN "-" \o key ELSE key \o "-"

\* the key appended for a character other than the hyphen
gk_key(key, passed_hyphen) ==
    IF key \in no_hyphen_keys THEN key
    ELSE IF passed_hyphen THEN "-" \o key
    ELSE key \o "-"

\* the body of "for key in stroke_str"
gk_char(g) ==
    LET key == g.stroke_str[g.i]
    IN  IF key = "-"
        THEN [g EXCEPT !.passed_hyphen = TRUE, !.i = @ + 1]
        ELSE [g EXCEPT !.keys = Append(@, gk_key(key, g.passed_hyphen)),
                       !.i = @ + 1]

RECURSIVE gk_loop(_)
gk_loop(g) == IF g.i > Len(g.stroke_str) THEN g ELSE gk_loop(gk_char(g))

get_keys_for_stroke(stroke_str) ==
    gk_loop([stroke_str |-> stroke_str, i |-> 1, passed_hyphen |-> FALSE,
             keys |-> <<>>]).keys

InitKeys ==
    /\ params = DefaultParams
    /\ mapping = DefaultMapping
    /\ controls = {}
    /\ controller_instance_id = 0
    /\ finished = FALSE
    /\ stick_states = [k \in StickAxes |-> 0]
    /\ trigger_states = [k \in Range(TriggerAxes) |-> 0]
    /\ pressed_buttons = {}
    /\ unsequenced_buttons = {}
    /\ pending_keys = {}
    /\ pending_stick_movements = [s \in Range(Sticks) |-> <<>>]
    /\ notified = <<>>
    /\ outcome = "not called"
    /\ collected = {}
    /\ btk = Idle
    /\ seg = NoCall
    /\ raised = NoError
    /\ peer = NoPeer
    /\ pm = NoParse
    /\ cmp = NoCompare
    /\ \E stroke_str \in StrokeStrings :
          gk = [stroke_str |-> stroke_str, i |-> 1, passed_hyphen |-> FALSE,
                keys |-> <<>>]

\* one iteration of "for key in stroke_str"
GkStep ==
    /\ gk.i <= Len(gk.stroke_str)
    /\ gk' = gk_char(gk)
    /\ UNCHANGED <<params, mapping, controller_instance_id, finished,
                   stick_states, trigger_states, pressed_buttons,
                   unsequenced_buttons, pending_keys, pending_stick_movements,
                   notified, outcome, collected, controls, btk, seg, raised,
                   peer, pm, cmp>>

NextKeys == GkStep

SpecKeys == InitKeys /\ [][NextKeys]_vars

-----------------------------------------------------------------------------
(* The two mapping parsers on their own, one line per step:                  *)
(* machine.parse_mappings and config.Mappings.parse.  A tagged id such as    *)
(* f"b{n}" is the tag followed by the digits.                                *)

\* Mappings.empty()
Mappings_empty ==
    [sticks             |-> <<>>,
     buttons_and_hats   |-> <<>>,
     triggers           |-> <<>>,
     unordered_mappings |-> <<>>,
     ordered_mappings   |-> <<>>]

\* the exception the body of the loop of Mappings.parse raises on a line
Mappings_parse_line_raises(line) ==
    IF line.kind = "stick" THEN float(line.offset).raised ELSE NoError

\* the body of the loop of Mappings.parse
Mappings_parse_line(result, line) ==
    CASE line.kind = "stick" ->
            [result EXCEPT !.sticks = dict_set(@, line.name,
                [name     |-> line.name,
                 x_axis   |-> "a" \o line.x_axis,
                 y_axis   |-> "a" \o line.y_axis,
                 offset   |-> float(line.offset).value,
                 segments |-> line.segments])]
      [] line.kind = "unordered" ->
            [result EXCEPT !.unordered_mappings =
                Append(@, [chord  |-> line.chord,
                           result |-> get_keys_for_stroke(line.stroke)])]
      [] line.kind = "ordered" ->
            [result EXCEPT !.ordered_mappings =
                dict_set(@, [i \in DOMAIN line.path |-> line.stick \o line.path[i]],
                         get_keys_for_stroke(line.stroke))]
      [] line.kind = "button" ->
            [result EXCEPT !.buttons_and_hats = dict_set(@, "b" \o line.id,
                [name |-> line.name, button |-> "b" \o line.id])]
      [] line.kind = "hat" ->
            [result EXCEPT !.buttons_and_hats = dict_set(@, "h" \o line.id,
                [name |-> line.name, button |-> "h" \o line.id])]
      [] line.kind = "trigger" ->
            [result EXCEPT !.triggers = dict_set(@, "a" \o line.axis,
                [name |-> line.name, axis |-> "a" \o line.axis])]
      [] OTHER -> result

RECURSIVE Mappings_parse_lines(_, _, _)
Mappings_parse_lines(result, text, i) ==
    IF i > Len(text) THEN result
    ELSE Mappings_parse_lines(Mappings_parse_line(result, text[i]), text, i + 1)

Mappings_parse(text) == Mappings_parse_lines(Mappings_empty, text, 1)

\* the line forms each parser accepts, and the lines it passes over silently
MachineForms == {"stick", "unordered", "ordered"}
ConfigForms  == {"stick", "unordered", "ordered", "button", "hat", "trigger"}
Ignored      == {"blank", "comment"}

\* the lines the texts given to Mappings.parse are made of
ConfigLinePool ==
    { [kind |-> "stick", name |-> "left", segments |-> <<"u", "d">>,
       x_axis |-> "0", y_axis |-> "1", offset |-> <<"0">>],
      [kind |-> "stick", name |-> "left", segments |-> <<"d", "u">>,
       x_axis |-> "2", y_axis |-> "3", offset |-> <<"-", "9", "0">>],
      [kind |-> "stick", name |-> "left", segments |-> <<"u", "d">>,
       x_axis |-> "0", y_axis |-> "1", offset |-> <<"1", ".", "2", ".">>],
      [kind |-> "unordered", chord |-> <<"a">>, stroke |-> <<"P", "-", "F">>],
      [kind |-> "ordered", stick |-> "left", path |-> <<"u">>,
       stroke |-> <<"P">>],
      [kind |-> "ordered", stick |-> "left", path |-> <<"u">>,
       stroke |-> <<"-", "F">>],
      [kind |-> "button", id |-> "1", name |-> "a"],
      [kind |-> "button", id |-> "1", name |-> "b"],
      [kind |-> "hat", id |-> "1", name |-> "up"],
      [kind |-> "trigger", axis |-> "2", name |-> "lt"],
      [kind |-> "trigger", axis |-> "2", name |-> "rt"],
      [kind |-> "blank"],
      [kind |-> "comment"],
      [kind |-> "unknown"] }

ConfigTexts == UNION {[1..n -> ConfigLinePool] : n \in 0..MaxLines}

\* one pass of a parser's loop: the line raises, or is parsed, or is passed
\* over (reported by print unless blank or a comment)
parse_step(p, line, raises, parsed, forms) ==
    IF raises # NoError THEN [p EXCEPT !.raised = raises]
    ELSE [p EXCEPT !.i       = @ + 1,
                   !.result  = parsed,
                   !.printed = IF line.kind \in forms \cup Ignored THEN @
                               ELSE Append(@, line)]

InitParse ==
    /\ params = DefaultParams
    /\ mapping = DefaultMapping
    /\ controls = {}
    /\ controller_instance_id = 0
    /\ finished = FALSE
    /\ stick_states = [k \in StickAxes |-> 0]
    /\ trigger_states = [k \in Range(TriggerAxes) |-> 0]
    /\ pressed_buttons = {}
    /\ unsequenced_buttons = {}
    /\ pending_keys = {}
    /\ pending_stick_movements = [s \in Range(Sticks) |-> <<>>]
    /\ notified = <<>>
    /\ outcome = "not called"
    /\ collected = {}
    /\ btk = Idle
    /\ seg = NoCall
    /\ gk = NoRun
    /\ raised = NoError
    /\ peer = NoPeer
    /\ cmp = NoCompare
    /\ \/ \E text \in Texts :
            pm = [parser |-> "machine", text |-> text, i |-> 0,
                  result |-> NoTables, printed |-> <<>>, raised |-> NoError]
       \/ \E text \in ConfigTexts :
            pm = [parser |-> "config", text |-> text, i |-> 0,
                  result |-> Mappings_empty, printed |-> <<>>,
                  raised |-> NoError]

ParseUnchanged ==
    UNCHANGED <<params, mapping, controller_instance_id, finished,
                stick_states, trigger_states, pressed_buttons,
                unsequenced_buttons, pending_keys, pending_stick_movements,
                notified, outcome, collected, controls, btk, seg, gk, raised,
                peer, cmp>>

\* one iteration of the loop of machine.parse_mappings
ParseMappingsStep ==
    /\ pm.parser = "machine"
    /\ pm.raised = NoError
    /\ pm.i < Len(pm.text)
    /\ LET line == pm.text[pm.i + 1]
       IN  pm' = parse_step(pm, line, parse_line_raises(line),
                            parse_line(pm.result, line), MachineForms)
    /\ ParseUnchanged

\* one iteration of the loop of config.Mappings.parse
MappingsParseStep ==
    /\ pm.parser = "config"
    /\ pm.raised = NoError
    /\ pm.i < Len(pm.text)
    /\ LET line == pm.text[pm.i + 1]
       IN  pm' = parse_step(pm, line, Mappings_parse_line_raises(line),
                            Mappings_parse_line(pm.result, line), ConfigForms)
    /\ ParseUnchanged

NextParse == ParseMappingsStep \/ MappingsParseStep

SpecParse == InitParse /\ [][NextParse]_vars

-----------------------------------------------------------------------------
(* Sessions with other settings of the machine's options: a stick dead zone  *)
(* above, below and equal to the stroke-end threshold.                       *)

\* the settings of stick_dead_zone and stroke_end_threshold, in hundredths
ZoneParams ==
    { [stick_dead_zone |-> 60, trigger_dead_zone |-> 90,
       stroke_end_threshold |-> 40],
      [stick_dead_zone |-> 25, trigger_dead_zone |-> 90,
       stroke_end_threshold |-> 50],
      [stick_dead_zone |-> 50, trigger_dead_zone |-> 90,
       stroke_end_threshold |-> 50],
      [stick_dead_zone |-> 0, trigger_dead_zone |-> 90,
       stroke_end_threshold |-> 0] }

\* the controls touched in these sessions
ZoneControls == {"a", "leftx", "lefty"}

InitZones ==
    /\ params \in ZoneParams
    /\ mapping = DefaultMapping
    /\ controls = ZoneControls
    /\ controller_instance_id = 0
    /\ finished = FALSE
    /\ stick_states = [k \in StickAxes |-> 0]
    /\ trigger_states = [k \in Range(TriggerAxes) |-> 0]
    /\ pressed_buttons = {}
    /\ unsequenced_buttons = {}
    /\ pending_keys = {}
    /\ pending_stick_movements = [s \in Range(Sticks) |-> <<>>]
    /\ notified = <<>>
    /\ outcome = "not called"
    /\ collected = {}
    /\ btk = Idle
    /\ seg = NoCall
    /\ gk = NoRun
    /\ raised = NoError
    /\ peer = NoPeer
    /\ pm = NoParse
    /\ cmp = NoCompare

SpecZones == InitZones /\ [][Next]_vars

-----------------------------------------------------------------------------
(* The helpers of util.py next to their copies in machine.py: one call of    *)
(* each on the same arguments.                                               *)

\* util.buttons_to_keys: "for key in chord: in_keys.remove(key)"
RECURSIVE util_remove(_, _)
util_remove(in_keys, chord) ==
    IF chord = <<>> THEN [in_keys |-> in_keys, raised |-> NoError]
    ELSE IF Head(chord) \notin in_keys
    THEN [in_keys |-> in_keys, raised |-> "KeyError"]
    ELSE util_remove(in_keys \ {Head(chord)}, Tail(chord))

\* util.buttons_to_keys: the loop over the rules not yet looked at
RECURSIVE util_rules(_, _, _)
util_rules(in_keys, keys, rules) ==
    IF rules = <<>>
    THEN [in_keys |-> in_keys, keys |-> keys, raised |-> NoError]
    ELSE IF Range(Head(rules).chord) \subseteq in_keys
    THEN LET removed == util_remove(in_keys, Head(rules).chord)
         IN  IF removed.raised # NoError
             THEN [in_keys |-> removed.in_keys, keys |-> keys,
                   raised |-> removed.raised]
             ELSE util_rules(removed.in_keys,
                             keys \cup Range(Head(rules).result), Tail(rules))
    ELSE util_rules(in_keys, keys, Tail(rules))

\* util.buttons_to_keys: the keys returned, what is left of in_keys and the
\* exception raised, if any
util_buttons_to_keys(in_keys, unordered_mappings) ==
    util_rules(in_keys, {}, unordered_mappings)

\* the rules of the rule lists compared, one with a symbol named twice
AgreeRules == RulePool \cup {[chord |-> <<"a", "a">>, result |-> <<"-S">>]}

AgreeRuleLists == UNION {[1..n -> AgreeRules] : n \in 0..MaxRules}

\* a stick of n segments named by their indices
Numbered(n) == [i \in 1..n |-> Digits[i]]

\* the tables of a machine whose only stick is the left one
OneStick(offset, n) ==
    [stick_segment_counts |-> [s \in {"left"} |-> n],
     stick_offsets        |-> [s \in {"left"} |-> offset],
     stick_directions     |-> [s \in {"left"} |-> Numbered(n)],
     unordered_mappings   |-> <<>>,
     ordered_mappings     |-> <<>>]

InitAgree ==
    /\ params = DefaultParams
    /\ mapping = DefaultMapping
    /\ controls = {}
    /\ controller_instance_id = 0
    /\ finished = FALSE
    /\ stick_states = [k \in StickAxes |-> 0]
    /\ trigger_states = [k \in Range(TriggerAxes) |-> 0]
    /\ pressed_buttons = {}
    /\ unsequenced_buttons = {}
    /\ pending_keys = {}
    /\ pending_stick_movements = [s \in Range(Sticks) |-> <<>>]
    /\ notified = <<>>
    /\ outcome = "not called"
    /\ collected = {}
    /\ btk = Idle
    /\ seg = NoCall
    /\ gk = NoRun
    /\ raised = NoError
    /\ peer = NoPeer
    /\ pm = NoParse
    /\ \/ \E dz \in DeadZones, offset \in Offsets, n \in 1..MaxSegments,
             lr \in SampleValues, ud \in SampleValues :
               cmp = [helper |-> "stick_segment", stick_dead_zone |-> dz,
                      offset |-> offset, segment_count |-> n, lr |-> lr,
                      ud |-> ud, machine |-> NotCalled, util |-> NotCalled]
       \/ \E in_keys \in InKeys, um \in AgreeRuleLists :
               cmp = [helper |-> "buttons_to_keys", in_keys |-> in_keys,
                      unordered_mappings |-> um, machine |-> NotCalled,
                      util |-> NotCalled]

AgreeUnchanged ==
    UNCHANGED <<params, mapping, controller_instance_id, finished,
                stick_states, trigger_states, pressed_buttons,
                unsequenced_buttons, pending_keys, pending_stick_movements,
                notified, outcome, collected, controls, btk, seg, gk, raised,
                peer, pm>>

\* self.check_stick("left", lr, ud) on a machine with an empty path
CallCheckStick ==
    /\ cmp.helper = "stick_segment"
    /\ ~cmp.machine.called
    /\ LET p == [params EXCEPT !.stick_dead_zone = cmp.stick_dead_zone]
           e == check_stick(p, OneStick(cmp.offset, cmp.segment_count), Self,
                            "left", cmp.lr, cmp.ud)
       IN  cmp' = [cmp EXCEPT !.machine =
                       [called |-> TRUE,
                        path   |-> e.pending_stick_movements["left"],
                        raised |-> e.raised]]
    /\ AgreeUnchanged

\* util.stick_segment(stick_dead_zone, offset, segment_count, lr, ud)
CallStickSegment ==
    /\ cmp.helper = "stick_segment"
    /\ ~cmp.util.called
    /\ cmp' = [cmp EXCEPT !.util =
                   [called |-> TRUE,
                    result |-> stick_segment(cmp.stick_dead_zone, cmp.offset,
                                             cmp.segment_count, cmp.lr, cmp.ud)]]
    /\ AgreeUnchanged

\* machine.buttons_to_keys(in_keys, unordered_mappings)
CallMachineButtonsToKeys ==
    /\ cmp.helper = "buttons_to_keys"
    /\ ~cmp.machine.called
    /\ LET r == buttons_to_keys(cmp.in_keys, cmp.unordered_mappings)
       IN  cmp' = [cmp EXCEPT !.machine =
                       [called |-> TRUE, keys |-> r.keys, in_keys |-> r.in_keys,
                        raised |-> r.raised]]
    /\ AgreeUnchanged

\* util.buttons_to_keys(in_keys, unordered_mappings)
CallUtilButtonsToKeys ==
    /\ cmp.helper = "buttons_to_keys"
    /\ ~cmp.util.called
    /\ LET r == util_buttons_to_keys(cmp.in_keys, cmp.unordered_mappings)
       IN  cmp' = [cmp EXCEPT !.util =
                       [called |-> TRUE, keys |-> r.keys, in_keys |-> r.in_keys,
                        raised |-> r.raised]]
    /\ AgreeUnchanged

NextAgree ==
    \/ CallCheckStick
    \/ CallStickSegment
    \/ CallMachineButtonsToKeys
    \/ CallUtilButtonsToKeys

SpecAgree == InitAgree /\ [][NextAgree]_vars

-----------------------------------------------------------------------------
(* Properties. *)

\* the stroke handed to _notify for a set of collected symbols
Resolve(symbols) ==
    keys_to_actions(buttons_to_keys(symbols, mapping.unordered_mappings).keys)

SticksAtRest ==
    \A k \in StickAxes : 100 * abs(stick_states[k]) <= Scale * params.stroke_end_threshold

TriggersReleased == \A k \in Range(TriggerAxes) : trigger_states[k] <= 0

NoPath == \A s \in Range(Sticks) : pending_stick_movements[s] = <<>>

\* nothing but buttons has been collected for the stroke in progress
ButtonsOnly ==
    /\ SticksAtRest
    /\ TriggersReleased
    /\ NoPath
    /\ pending_keys = {}
    /\ unsequenced_buttons \subseteq Buttons

\* C1 as stated: with sticks and triggers at rest no stroke is emitted while a
\* button is held, and the release that leaves no button held emits exactly
\* one stroke, the resolution of the buttons pressed since the last emission.
C1_ReleaseAlwaysEmits ==
    /\ [](pressed_buttons # {} => notified = <<>>)
    /\ [][(ButtonsOnly /\ pressed_buttons # {} /\ pressed_buttons' = {})
            => notified' = <<Resolve(collected)>>]_vars

\* C1 amended: with sticks and triggers at rest no stroke is emitted while a
\* button is held; the release that leaves no button held emits the
\* resolution of the buttons pressed since the last such release as one
\* stroke when that resolution is not empty, and nothing when it is empty;
\* after it nothing is emitted until a button is pressed or an axis moves.
C1_ReleaseEmitsResolution ==
    /\ [](pressed_buttons # {} => notified = <<>>)
    /\ [][(ButtonsOnly /\ pressed_buttons # {} /\ pressed_buttons' = {})
            => notified' = IF Resolve(collected) = {} THEN <<>>
                           ELSE <<Resolve(collected)>>]_vars
    /\ [][(ButtonsOnly /\ pressed_buttons = {} /\ pressed_buttons' = {}
             /\ stick_states' = stick_states /\ trigger_states' = trigger_states)
            => notified' = <<>>]_vars

\* press a, release a under the default mapping: {-Z} was just emitted
C1_Witness ==
    /\ mapping = DefaultMapping
    /\ notified = <<{"-Z"}>>
    /\ \A k \in StickAxes : stick_states[k] = 0
    /\ TriggersReleased

\* C2: whenever a stroke is emitted, no stick axis is above the stroke-end
\* threshold, no trigger value is above zero and no button is pressed.
C2_EmitOnlyAtRest ==
    notified # <<>> => SticksAtRest /\ TriggersReleased /\ pressed_buttons = {}

\* a stroke carrying the trigger's key was emitted once the trigger was let go
C2_Witness == Len(notified) = 1 /\ "A-" \in notified[1]

StickOut(s) ==
    \E k \in {s \o "x", s \o "y"} :
        100 * abs(stick_states[k]) > Scale * params.stroke_end_threshold

Other(s) == IF s = "left" THEN "right" ELSE "left"

\* C3: when an axis event returns a stick to rest with its pending path equal
\* to a key of the ordered mappings, no button held, no trigger positive, the
\* other stick at rest and nothing else collected, exactly one stroke is
\* emitted and it is exactly the keys mapped to that path.
C3_OrderedMatchEmits ==
    [][\A s \in Range(Sticks) :
          ( /\ StickOut(s) /\ ~StickOut(s)'
            /\ pending_stick_movements[s] \in DOMAIN mapping.ordered_mappings
            /\ pressed_buttons = {}
            /\ TriggersReleased
            /\ ~StickOut(Other(s))
            /\ pending_stick_movements[Other(s)] = <<>>
            /\ unsequenced_buttons = {}
            /\ pending_keys = {} )
          => /\ notified' =
                  <<Range(mapping.ordered_mappings[pending_stick_movements[s]])>>
             /\ unsequenced_buttons' = {}
             /\ pending_keys' = {}
             /\ NoPath']_vars

\* the path leftd, leftdl, leftul, leftdl was just resolved: {T-, W-} emitted
C3_Witness ==
    /\ notified = <<{"T-", "W-"}>>
    /\ outcome = "completed"
    /\ ~StickOut("left") /\ ~StickOut("right")

\* C5: a pending path never holds two equal neighbours; an axis sample that
\* quantizes to the path's last segment leaves the path as it is, one that
\* quantizes to another segment appends exactly that segment.
C5_PathCollapsesRepeats ==
    /\ [](\A s \in Range(Sticks) :
            \A i \in 1..(Len(pending_stick_movements[s]) - 1) :
                pending_stick_movements[s][i] # pending_stick_movements[s][i + 1])
    /\ [][(stick_states' # stick_states \/ trigger_states' # trigger_states)
            => \A s \in Range(Sticks) :
                 LET g == stick_segment(params.stick_dead_zone,
                                        mapping.stick_offsets[s],
                                        mapping.stick_segment_counts[s],
                                        stick_states'[s \o "x"],
                                        stick_states'[s \o "y"])
                     old == pending_stick_movements[s]
                     name == s \o mapping.stick_directions[s][g + 1]
                 IN  g # no_segment =>
                        pending_stick_movements'[s] =
                            IF old # <<>> /\ old[Len(old)] = name THEN old
                            ELSE Append(old, name)]_vars

\* samples d, d, dl, dl, d have left the path leftd, leftdl, leftd
C5_Witness == pending_stick_movements["left"] = <<"leftd", "leftdl", "leftd">>

\* C6: when maybe_complete_stroke gets past the completion predicate, the
\* unsequenced symbols, the pending keys and every stick's pending path are
\* empty on return, whether or not a stroke was emitted.
C6_CompletionClears ==
    outcome = "completed" =>
        unsequenced_buttons = {} /\ pending_keys = {} /\ NoPath

\* a completion that emitted nothing: the collected symbols matched no rule
C6_Witness == outcome = "completed" /\ notified = <<>>

\* the engine states in which the next event calls maybe_complete_stroke
StrokeCalls ==
    {button_released(Self, b) : b \in Buttons \cap controls}
    \cup UNION { { maybe_complete_ordered_chord(params, mapping,
                       axis_checked(params, mapping, Self, axis, value))
                   : value \in AxisValues(axis) }
                 : axis \in Axes \cap controls }

Accumulators(e) ==
    <<e.stick_states, e.trigger_states, e.pressed_buttons,
      e.unsequenced_buttons, e.pending_keys, e.pending_stick_movements,
      e.finished>>

\* C7: called with no unsequenced symbol and no pending key,
\* maybe_complete_stroke notifies nothing and changes nothing; two calls in a
\* row notify at most once.
C7_StrokeCheckIdempotent ==
    ~finished =>
        \A c \in StrokeCalls :
            LET once == maybe_complete_stroke(params, mapping, c)
                twice == maybe_complete_stroke(params, mapping, once)
            IN  /\ (c.unsequenced_buttons = {} /\ c.pending_keys = {})
                      => Accumulators(once) = Accumulators(c) /\ once.notified = <<>>
                /\ Len(twice.notified) <= 1
                /\ Accumulators(twice) = Accumulators(once)

\* a handler ran maybe_complete_stroke with nothing to flush
C7_Witness == outcome = "nothing to flush" /\ notified = <<>>

\* what maybe_complete_ordered_chord does with an unmatched path, on the
\* engine state of every axis event the session can deliver next
UnmatchedPathAdded ==
    ~finished =>
        \A axis \in Axes \cap controls :
            \A value \in AxisValues(axis) :
                LET pre == axis_checked(params, mapping, Self, axis, value)
                    post == maybe_complete_ordered_chord(params, mapping, pre)
                IN  \A s \in Range(Sticks) :
                        ( /\ \A k \in {s \o "x", s \o "y"} :
                                100 * abs(pre.stick_states[k])
                                    <= Scale * params.stroke_end_threshold
                          /\ pre.pending_stick_movements[s]
                                \notin DOMAIN mapping.ordered_mappings )
                        => /\ Range(pre.pending_stick_movements[s])
                                \subseteq post.unsequenced_buttons
                           /\ pre.unsequenced_buttons
                                \subseteq post.unsequenced_buttons
                           /\ post.pending_stick_movements[s] = <<>>

\* C8: when a stick is at rest and its pending path is not a key of the
\* ordered mappings, every symbol of the path is added to the unsequenced
\* symbols and the path is emptied; no unsequenced symbol is dropped until a
\* stroke completes and resolves them.
C8_UnmatchedPathKept ==
    /\ []UnmatchedPathAdded
    /\ [][outcome' # "completed"
            => unsequenced_buttons \subseteq unsequenced_buttons']_vars

\* the left stick came to rest on an unmatched path while a button was held:
\* its symbols wait in the unsequenced symbols
C8_Witness ==
    /\ pressed_buttons # {}
    /\ ~StickOut("left")
    /\ pending_stick_movements["left"] = <<>>
    /\ {"leftd", "leftdl"} \subseteq unsequenced_buttons

\* C9: every trigger whose value is above zero has its name in the
\* unsequenced symbols, and no stroke is emitted while a trigger is above
\* zero, whatever trigger_dead_zone is.
C9_TriggersHaveNoDeadZone ==
    /\ \A t \in Range(TriggerAxes) :
          trigger_states[t] > 0 => t \in unsequenced_buttons
    /\ (\E t \in Range(TriggerAxes) : trigger_states[t] > 0) => notified = <<>>

\* a trigger held below the configured trigger_dead_zone is collected
C9_Witness ==
    /\ trigger_states["lefttrigger"] > 0
    /\ 100 * trigger_states["lefttrigger"] < Scale * params.trigger_dead_zone
    /\ "lefttrigger" \in unsequenced_buttons
    /\ outcome = "trigger held"

\* C10: once a device-removed event of the active controller is processed,
\* the unsequenced symbols, pending keys, pending paths, pressed buttons and
\* axis values are all cleared and no stroke was emitted.
C10_RemovalResets ==
    finished =>
        /\ unsequenced_buttons = {}
        /\ pending_keys = {}
        /\ NoPath
        /\ pressed_buttons = {}
        /\ \A k \in StickAxes : stick_states[k] = 0
        /\ \A t \in Range(TriggerAxes) : trigger_states[t] = 0
        /\ notified = <<>>

\* C4: buttons_to_keys walks the rules in order; a rule fires exactly when
\* all its symbols are among those still available, firing removes them and
\* adds the rule's keys.  For (a,b -> -T) then (a -> -D), {a,b} gives {-T}
\* and {a} gives {-D}.
C4_GreedyConsuming ==
    /\ [][btk' # btk =>
            LET rule == btk.um[btk.i]
                fires == Range(rule.chord) \subseteq btk.in_keys
            IN  /\ btk'.i = btk.i + 1
                /\ btk'.in_keys = IF fires THEN btk.in_keys \ Range(rule.chord)
                                  ELSE btk.in_keys
                /\ btk'.keys = IF fires THEN btk.keys \cup Range(rule.result)
                               ELSE btk.keys]_vars
    /\ [](btk.i > Len(btk.um) =>
            /\ buttons_to_keys(btk.in0, btk.um)
                  = [in_keys |-> btk.in_keys, keys |-> btk.keys,
                     raised |-> NoError]
            /\ btk.um = << [chord |-> <<"a", "b">>, result |-> <<"-T">>],
                           [chord |-> <<"a">>, result |-> <<"-D">>] >>
                  => /\ btk.in0 = {"a", "b"} => btk.keys = {"-T"}
                     /\ btk.in0 = {"a"} => btk.keys = {"-D"})

\* the run over (a,b -> -T), (a -> -D) on {a,b} has ended with {-T}
C4_Witness ==
    /\ btk.um = << [chord |-> <<"a", "b">>, result |-> <<"-T">>],
                   [chord |-> <<"a">>, result |-> <<"-D">>] >>
    /\ btk.in0 = {"a", "b"}
    /\ btk.i = 3
    /\ btk.keys = {"-T"}
    /\ btk.in_keys = {}

\* C11: two instances share no mutable state: an event processed by one
\* ControllerMachine leaves the stick values, trigger values, pressed buttons,
\* unsequenced symbols, pending keys and pending paths of the other unchanged.
C11_InstancesShareNothing ==
    [][(PeerAxisMotion \/ PeerButton \/ PeerDeviceRemoved)
          => UNCHANGED EngineVars]_vars

\* every stick centred, every trigger released, nothing pressed or collected
EngineEmpty ==
    /\ \A k \in StickAxes : stick_states[k] = 0
    /\ \A t \in Range(TriggerAxes) : trigger_states[t] = 0
    /\ pressed_buttons = {}
    /\ unsequenced_buttons = {}
    /\ pending_keys = {}
    /\ NoPath

\* C12: engine state does not survive a capture session: a session that is
\* started after another was stopped begins with empty axis values, no
\* pressed button and empty accumulators.
C12_SessionStartsEmpty ==
    [][(finished /\ ~finished') => EngineEmpty']_vars

\* C13: ordered resolution runs per stick: when an axis event brings one stick
\* to rest while the other is beyond threshold, the resting stick's path is
\* resolved there and then (its keys added on a match, its symbols collected
\* otherwise) and the other stick's pending path is unchanged.
C13_SticksResolveIndependently ==
    [][\A s \in Range(Sticks) :
          LET path == pending_stick_movements[s]
              held == {t \in Range(TriggerAxes) : trigger_states'[t] > 0}
          IN  (StickOut(s) /\ ~StickOut(s)' /\ StickOut(Other(s))')
              => /\ pending_stick_movements'[s] = <<>>
                 /\ pending_stick_movements'[Other(s)]
                        = pending_stick_movements[Other(s)]
                 /\ IF path \in DOMAIN mapping.ordered_mappings
                    THEN /\ pending_keys' = pending_keys
                                \cup Range(mapping.ordered_mappings[path])
                         /\ unsequenced_buttons' = unsequenced_buttons \cup held
                    ELSE /\ pending_keys' = pending_keys
                         /\ unsequenced_buttons'
                                = unsequenced_buttons \cup Range(path) \cup held
                 /\ notified' = <<>>]_vars

\* the left path was matched and cleared while the right stick is still out
C13_Witness ==
    /\ StickOut("right")
    /\ ~StickOut("left")
    /\ pending_stick_movements["right"] = <<"rightdr">>
    /\ pending_stick_movements["left"] = <<>>
    /\ pending_keys = {"T-", "W-"}
    /\ outcome = "stick out"

\* the loop handled an axis event of the active controller
ActiveAxisEvent ==
    \E axis \in Axes \cap controls :
        \E value \in AxisValues(axis) :
            Commit(handle_axis_motion(params, mapping, controller_instance_id,
                                      Self, controller_instance_id, axis, value),
                   {})

\* the loop handled a button release of the active controller
ActiveRelease ==
    \E button \in Buttons \cap controls :
        Commit(handle_button(params, mapping, controller_instance_id, Self,
                             controller_instance_id, button, FALSE),
               {})

\* C14: there is no auto-flush: a stroke is emitted only in a step that
\* handles an axis event or a button release of the active controller and
\* ends with every stick at rest, every trigger released and no button held;
\* a timeout with no event emits nothing and leaves the accumulators alone.
C14_NoAutoFlush ==
    /\ [][notified' # <<>>
            => /\ ActiveAxisEvent \/ ActiveRelease
               /\ SticksAtRest'
               /\ TriggersReleased'
               /\ pressed_buttons' = {}]_vars
    /\ [][Timeout
            => /\ notified' = <<>>
               /\ UNCHANGED <<unsequenced_buttons, pending_keys,
                              pending_stick_movements>>]_vars

\* the loop timed out while a held trigger and a stick path were pending
C14_Witness ==
    /\ outcome = "timed out"
    /\ unsequenced_buttons = {"lefttrigger"}
    /\ pending_stick_movements["left"] # <<>>
    /\ notified = <<>>

\* no unordered rule of the mapping lists the symbol
Unmapped(b) ==
    \A i \in DOMAIN mapping.unordered_mappings :
        b \notin Range(mapping.unordered_mappings[i].chord)

\* C15: a button no unordered rule mentions is not an error: no handler
\* raises, pressing it collects its raw name, and releasing it when nothing
\* else was collected completes the stroke with an empty key set: nothing is
\* notified and the accumulators are cleared.
C15_UnmappedButtonIsHarmless ==
    /\ [](raised = NoError)
    /\ [][\A b \in Buttons :
            (Unmapped(b) /\ b \notin pressed_buttons /\ b \in pressed_buttons')
            => b \in unsequenced_buttons']_vars
    /\ [][\A b \in Buttons :
            ( /\ Unmapped(b)
              /\ pressed_buttons = {b} /\ pressed_buttons' = {}
              /\ unsequenced_buttons = {b}
              /\ pending_keys = {}
              /\ SticksAtRest /\ TriggersReleased )
            => /\ outcome' = "completed"
               /\ notified' = <<>>
               /\ unsequenced_buttons' = {}
               /\ pending_keys' = {}
               /\ NoPath']_vars

\* guide, which DEFAULT_MAPPING leaves unmapped, was pressed and released
\* alone (a alone would have emitted -Z)
C15_Witness ==
    /\ "guide" \in controls
    /\ Unmapped("guide")
    /\ outcome = "completed"
    /\ notified = <<>>
    /\ unsequenced_buttons = {}
    /\ pressed_buttons = {}

\* C16: whatever mapping parse_mappings produced (no stick declared, one
\* stick only, a symbol repeated inside the input list of an unordered rule)
\* and whatever the events, every handler runs to completion without raising.
C16_HandlersNeverRaise == raised = NoError

\* C17: a stick declared with zero segments, or with a count that differs
\* from the number of listed symbols, never reaches event processing: no
\* handler divides by zero or indexes outside the list of segments.
C17_BadSticksRejected == raised \notin {"ZeroDivisionError", "IndexError"}

\* the square of hypot(lr, ud) and of stick_dead_zone * sqrt(2), same units
Magnitude2 == (seg.lr * seg.lr + seg.ud * seg.ud) * 10000

Boundary2 == 2 * seg.stick_dead_zone * seg.stick_dead_zone * Scale * Scale

\* the sample's angle minus the offset, normalised to one turn: [0, tau)
Turned == (atan2(seg.ud, seg.lr) - seg.offset * 1000) % tau

\* C18: for a sample outside the dead zone, any offset and any segment count
\* n >= 1, the quantizer returns floor(a / 360 * n) mod n, an index in
\* 0..n-1, where a is the angle minus the offset within one turn; segment 0
\* begins exactly at the offset; with 6 segments and offset 0 the index goes
\* up by one every 60 degrees and wraps from 5 to 0 at 360 degrees.
C18_QuantizerIndex ==
    (seg.done /\ Magnitude2 >= Boundary2) =>
        LET n == seg.segment_count
        IN  /\ seg.result \in 0..(n - 1)
            /\ seg.result = ((Turned * n) \div tau) % n
            /\ seg.result = 0 <=> Turned * n < tau
            /\ (n = 6 /\ seg.offset = 0) => seg.result = Turned \div 60000

\* the sample at 45 degrees with offset 90: 315 degrees on, the last of six
C18_Witness ==
    /\ seg.done
    /\ seg.segment_count = 6 /\ seg.offset = 90
    /\ seg.lr = 7 /\ seg.ud = 7
    /\ seg.result = 5

\* C19 as stated: a sample whose magnitude is exactly dead_zone * sqrt(2)
\* returns none, as every smaller one does; every larger one returns a
\* segment index.
C19_BoundaryIsNone ==
    seg.done => (seg.result = no_segment <=> Magnitude2 <= Boundary2)

\* C19: a sample whose magnitude is below dead_zone * sqrt(2) returns none;
\* one whose magnitude is exactly dead_zone * sqrt(2), or larger, returns a
\* segment index.
C19_BoundaryIsSegment ==
    seg.done => (seg.result = no_segment <=> Magnitude2 < Boundary2)

\* the sample (0.5, 0.5) with dead zone 0.5 lies on the boundary: segment 0
C19_Witness ==
    /\ seg.done
    /\ seg.stick_dead_zone = 50 /\ seg.lr = 4 /\ seg.ud = 4
    /\ Magnitude2 = Boundary2
    /\ seg.offset = 0
    /\ seg.result = 0

\* the characters read so far, and those of them that are not the hyphen
GkRead == SubSeq(gk.stroke_str, 1, gk.i - 1)

NotHyphen(c) == c # "-"

\* the place in the string of the j-th character that is not the hyphen
GkPlace(j) ==
    CHOOSE i \in 1..Len(GkRead) :
        /\ GkRead[i] # "-"
        /\ Cardinality({k \in 1..i : GkRead[k] # "-"}) = j

\* a hyphen stands before place i
AfterHyphen(i) == \E k \in 1..(i - 1) : GkRead[k] = "-"

\* C20: the converter returns one key per character other than the hyphen,
\* in the order of the string: the character followed by - when no hyphen
\* precedes it, preceded by - when one does, star and number-bar bare on
\* either side, nothing for the hyphen; PHRO-FR gives P- H- R- O- -F -R.
C20_ConverterOrderPreserving ==
    LET kept == SelectSeq(GkRead, NotHyphen)
    IN  /\ Len(gk.keys) = Len(kept)
        /\ \A j \in 1..Len(kept) :
              gk.keys[j] = IF kept[j] \in {"*", "#"} THEN kept[j]
                           ELSE IF AfterHyphen(GkPlace(j)) THEN "-" \o kept[j]
                           ELSE kept[j] \o "-"
        /\ gk.i > Len(gk.stroke_str)
              => /\ gk.keys = get_keys_for_stroke(gk.stroke_str)
                 /\ gk.stroke_str = PHRO_FR
                      => gk.keys = <<"P-", "H-", "R-", "O-", "-F", "-R">>

\* the run on PHRO-FR has ended
C20_Witness ==
    /\ gk.stroke_str = PHRO_FR
    /\ gk.i = 8
    /\ gk.keys = <<"P-", "H-", "R-", "O-", "-F", "-R">>

\* the lines read so far by the parser call
LinesRead == SubSeq(pm.text, 1, pm.i)

\* the line forms of the parser called
Forms == IF pm.parser = "machine" THEN MachineForms ELSE ConfigForms

\* the lines read that match an accepted form, and those that match none
Accepted == SelectSeq(LinesRead, LAMBDA line : line.kind \in Forms)
Unmatched == SelectSeq(LinesRead, LAMBDA line : line.kind \notin Forms \cup Ignored)

\* the result the parser called gives for a text
Parsed(text) ==
    IF pm.parser = "machine" THEN parse_mappings(text) ELSE Mappings_parse(text)

\* C21: parsing is best-effort.  At every point of a parser call no error
\* has been raised, the lines reported are exactly the lines read that match
\* no accepted form, and the result is the one the parser gives for the
\* lines read with the unmatched, blank and comment lines left out.
C21_BestEffort ==
    pm.parser # "none" =>
        /\ pm.raised = NoError
        /\ pm.printed = Unmatched
        /\ pm.result = Parsed(Accepted)

\* the tables of the result that are dicts
Dicts ==
    IF pm.parser = "machine"
    THEN {"stick_segment_counts", "stick_offsets", "stick_directions",
          "ordered_mappings"}
    ELSE {"sticks", "buttons_and_hats", "triggers", "ordered_mappings"}

\* the lines read that declare an entry of a table, and the entry declared
Declares(table) == {i \in 1..pm.i : Parsed(<<pm.text[i]>>)[table] # <<>>}
Declared(table, i) == Parsed(<<pm.text[i]>>)[table]
NameOf(table, i) == CHOOSE k \in DOMAIN Declared(table, i) : TRUE

\* the last of the lines read that declares the name in the table
LastOf(table, name) ==
    CHOOSE i \in Declares(table) :
        /\ NameOf(table, i) = name
        /\ \A j \in Declares(table) : NameOf(table, j) = name => j <= i

\* C22: duplicate declarations are last-write-wins.  While a parser call
\* has not raised, every dict of the result has exactly the names declared
\* by the lines read (stick names, ordered-rule paths, button and hat ids,
\* trigger axes), and holds for each name what the last line declaring it
\* declares.
C22_LastWriteWins ==
    (pm.parser # "none" /\ pm.raised = NoError) =>
        \A table \in Dicts :
            /\ DOMAIN pm.result[table] =
                   {NameOf(table, i) : i \in Declares(table)}
            /\ \A name \in DOMAIN pm.result[table] :
                   pm.result[table][name] =
                       Declared(table, LastOf(table, name))[name]

\* two different declarations of one name of the table have been read, and
\* the table holds the later one
Redeclared(table) ==
    \E i, j \in Declares(table) :
        /\ i < j
        /\ NameOf(table, i) = NameOf(table, j)
        /\ Declared(table, i) # Declared(table, j)
        /\ pm.result[table] = Declared(table, j)

C22_Witness ==
    /\ pm.parser = "config"
    /\ pm.raised = NoError
    /\ pm.i = Len(pm.text)
    /\ Redeclared("buttons_and_hats")

\* C23: no stroke is left stuck.  In every state a handler that returned
\* has left, when no stick axis is above the stroke-end threshold, no trigger
\* value is above zero and no button is held, the unsequenced symbols and
\* the pending keys are both empty.
C23_NoStuckStroke ==
    (raised = NoError /\ SticksAtRest /\ TriggersReleased /\ pressed_buttons = {})
        => unsequenced_buttons = {} /\ pending_keys = {}

\* the handler that made the predicate true got past it in
\* maybe_complete_stroke, emitted a stroke and left nothing behind
C23_Witness ==
    /\ outcome = "completed"
    /\ raised = NoError
    /\ SticksAtRest /\ TriggersReleased /\ pressed_buttons = {}
    /\ notified # <<>>
    /\ unsequenced_buttons = {} /\ pending_keys = {}

\* C24: in every state a handler that returned has left, a stick none of
\* whose axes is above the stroke-end threshold has an empty pending path;
\* and whenever maybe_complete_stroke gets to its clear() calls, every
\* stick's pending path is already empty, so the clearing discards nothing.
C24_RestingStickHasNoPath ==
    /\ raised = NoError =>
          \A s \in Range(Sticks) :
              ~StickOut(s) => pending_stick_movements[s] = <<>>
    /\ (raised = NoError /\ ~finished) =>
          \A c \in StrokeCalls :
              maybe_complete_stroke(params, mapping, c).outcome = "completed"
                  => \A s \in Range(Sticks) : c.pending_stick_movements[s] = <<>>

\* the left stick is back at rest, its unmatched segment moved to the
\* unsequenced symbols, while the right stick is still out with its path
C24_Witness ==
    /\ ~StickOut("left")
    /\ StickOut("right")
    /\ pending_stick_movements["left"] = <<>>
    /\ pending_stick_movements["right"] # <<>>
    /\ "leftd" \in unsequenced_buttons
    /\ outcome = "stick out"

\* the sample of a stick in an engine state: outside the dead zone, at rest
Quantizes(e, s) ==
    ~in_dead_zone(params.stick_dead_zone, e.stick_states[s \o "x"],
                  e.stick_states[s \o "y"])
AtRest(e, s) ==
    \A k \in {s \o "x", s \o "y"} : ~over_threshold(params, e.stick_states[k])

\* C25: for every axis event the active controller can deliver next, with
\* pre the engine after check_axes, mid after maybe_complete_ordered_chord
\* and post after the whole handler.  When the dead zone is above the
\* stroke-end threshold, a stick whose sample quantizes is not at rest and
\* a segment appended by the event is still pending when the handler
\* returns.  When the dead zone is at most the threshold, a sample at rest
\* that quantizes puts its segment on an empty path and the same event
\* resolves it and, nothing else being held, goes through stroke completion.
C25_DeadZoneAboveThreshold ==
    (raised = NoError /\ ~finished) =>
        \A axis \in StickAxes \cap controls :
            \A value \in AxisValues(axis) :
                LET pre  == axis_checked(params, mapping, Self, axis, value)
                    mid  == maybe_complete_ordered_chord(params, mapping, pre)
                    post == maybe_complete_stroke(params, mapping, mid)
                    was(s) == pending_stick_movements[s]
                IN  \A s \in Range(Sticks) :
                        IF params.stick_dead_zone > params.stroke_end_threshold
                        THEN /\ Quantizes(pre, s) => ~AtRest(pre, s)
                             /\ pre.pending_stick_movements[s] # was(s) =>
                                    /\ post.pending_stick_movements[s] =
                                           pre.pending_stick_movements[s]
                                    /\ post.notified = <<>>
                        ELSE (Quantizes(pre, s) /\ AtRest(pre, s) /\ was(s) = <<>>) =>
                                /\ Len(pre.pending_stick_movements[s]) = 1
                                /\ mid.pending_stick_movements[s] = <<>>
                                /\ \/ Range(pre.pending_stick_movements[s])
                                          \subseteq mid.unsequenced_buttons
                                   \/ pre.pending_stick_movements[s]
                                          \in DOMAIN mapping.ordered_mappings
                                /\ (pressed_buttons = {} /\ AtRest(pre, Other(s)))
                                       => post.outcome = "completed"

\* with the dead zone at most the threshold: the left stick is held at a
\* position at rest, the last event emitted a stroke, and the next axis
\* event with the same position emits one again
C25_Witness ==
    /\ params.stick_dead_zone <= params.stroke_end_threshold
    /\ raised = NoError /\ ~finished
    /\ Quantizes(Self, "left") /\ AtRest(Self, "left")
    /\ pressed_buttons = {}
    /\ outcome = "completed"
    /\ notified # <<>>
    /\ \E axis \in {"leftx", "lefty"} :
          handle_axis_motion(params, mapping, controller_instance_id, Self,
                             controller_instance_id, axis,
                             stick_states[axis]).notified = notified

\* C26: in every state, an axis, button or device-removed event whose
\* device id is not the active controller's instance id returns the engine
\* as it found it: axis values, pressed buttons, unsequenced symbols,
\* pending keys, pending paths and the finished flag unchanged, nothing
\* handed to _notify.
C26_OtherDeviceIgnored ==
    \A which \in Devices \ {controller_instance_id} :
        /\ \A axis \in Axes \cap controls :
              \A value \in AxisValues(axis) :
                  handle_axis_motion(params, mapping, controller_instance_id,
                                     Self, which, axis, value) = Self
        /\ \A button \in Buttons \cap controls :
              \A state \in BOOLEAN :
                  handle_button(params, mapping, controller_instance_id,
                                Self, which, button, state) = Self
        /\ handle_device_removed(params, mapping, controller_instance_id,
                                 Self, which) = Self

\* the last event was one of another device, delivered while the left stick
\* was out with a pending path: no handler got to maybe_complete_stroke
C26_Witness ==
    /\ outcome = "not called"
    /\ pressed_buttons = {}
    /\ ~finished
    /\ StickOut("left")
    /\ pending_stick_movements["left"] # <<>>
    /\ notified = <<>>

\* C27: the copies in machine.py agree with the helpers of util.py.  Once
\* both have been called on the same arguments: check_stick has raised
\* nothing and has appended nothing when stick_segment returned None, and
\* the segment whose index stick_segment returned otherwise; and the two
\* buttons_to_keys have returned the same keys, left the same symbols in
\* in_keys and raised the same exception, if any.
C27_CopiesAgree ==
    (cmp.machine.called /\ cmp.util.called) =>
        IF cmp.helper = "stick_segment"
        THEN /\ cmp.machine.raised = NoError
             /\ cmp.machine.path =
                    IF cmp.util.result = no_segment THEN <<>>
                    ELSE <<"left" \o Digits[cmp.util.result + 1]>>
        ELSE cmp.machine = cmp.util

\* both quantizers put a sample turned by an offset into a segment other
\* than the first, and both resolvers fired a rule and left a symbol over
C27_Witness ==
    /\ cmp.machine.called /\ cmp.util.called
    /\ \/ /\ cmp.helper = "stick_segment"
          /\ cmp.offset # 0
          /\ cmp.util.result > 0
          /\ cmp.machine.path # <<>>
       \/ /\ cmp.helper = "buttons_to_keys"
          /\ cmp.util.keys # {}
          /\ cmp.util.in_keys # {}
          /\ cmp.machine.keys # {}

====
